---- MODULE Spec2Model ----
(***************************************************************************)
(* Model of Piney's pc_main_baseline.py: the document collector            *)
(* (process_directory / process_file / chunk_text), main's control flow,   *)
(* initialize, and the batched writer upsert_data.                         *)
(*                                                                         *)
(* The module is executed top to bottom by Python, so of the functions     *)
(* defined twice the LATER definition is the one bound at run time         *)
(* (load_config 214, select_or_create_namespace 308, chunk_text 321,       *)
(* process_file 343, process_directory 386).  Those are the ones modelled. *)
(*                                                                         *)
(* A run starts at one of the program's callable units (variable entry):   *)
(* main() itself, or one of its functions called directly with arguments   *)
(* drawn from bounded sets.                                                *)
(***************************************************************************)
EXTENDS Integers, Sequences, FiniteSets, TLC

\* ------------------------------------------------------------------ bounds
MaxFiles == 2
MaxDocs == 4
MaxBatchArg == 2
MaxTextLen == 3
MaxTokArg == 2
MaxPrompts == 2
MaxQueries == 2

\* ------------------------------------------------------- program constants
\* chunk_text(text, max_tokens=1000)
DefaultMaxTokens == 1000
\* ... else 100
DefaultBatchSize == 100

VARIABLES
    entry,        \* the callable unit the run started at
    pc,           \* position of the run
    env,          \* os.environ: [PINECONE_API_KEY, OPENAI_API_KEY], "" = unset
    args,         \* the argparse namespace
    optlibs,      \* which of the optional modules PyPDF2 / docx were importable
    dirstate,     \* what os.path.isdir / os.access say about the directory
    typed_dir,    \* what the user types at the directory prompt
    files,        \* os.walk's enumeration of the tree: a sequence of files
    file_idx,     \* process_directory: index of the next file of the walk
    documents,    \* process_directory's list / upsert_data's argument
    doc_id,       \* process_directory: the counter
    raised,       \* the exception propagating out of the run, or "none"
    exit_code,    \* sys.exit status, or "none"
    out,          \* what the run printed, in order
    c_text,       \* chunk_text called directly: its text argument
    c_max,        \* chunk_text called directly: its max_tokens argument
    c_result,     \* chunk_text called directly: what the call produced
    existing_indexes, \* the vector store: pc.list_indexes().names()
    created,      \* the vector store: the pc.create_index calls, in order
    clients,      \* the API clients constructed so far (openai.OpenAI, Pinecone)
    index_name,   \* initialize: the index selected / upsert_data's index
    namespace,    \* initialize: the namespace selected / upsert_data's argument
    embed_calls,  \* the embedding provider: the text lists submitted, in order
    upserts,      \* the vector store: the index.upsert calls issued, in order
    batch_size,   \* upsert_data: local (0 until assigned)
    embeddings,   \* upsert_data: local
    vectors,      \* upsert_data: local
    ns,           \* upsert_data: local
    total_batches, \* upsert_data: local (0 until assigned)
    i,            \* upsert_data: the loop variable of range(0, len, batch_size)
    query,        \* query_pinecone called directly: its query argument
    queries,      \* the vector store: the index.query calls issued, in order
    prompts       \* prompt turns answered without a result (index, query loop)

inputVars == <<entry, env, args, optlibs, dirstate, typed_dir, files>>
collectVars == <<file_idx, documents, doc_id>>
chunkVars == <<c_text, c_max, c_result>>
storeVars == <<existing_indexes, created, clients, index_name, namespace,
               prompts>>
upsertVars == <<embed_calls, upserts, batch_size, embeddings, vectors, ns,
                total_batches, i>>

queryVars == <<query, queries>>

vars == <<inputVars, collectVars, chunkVars, storeVars, upsertVars, queryVars,
          pc, raised, exit_code, out>>

\* ----------------------------------------------------------------- helpers
None == "None"

\* args.batch_size: the attribute may be missing (hasattr is false), None, or
\* an integer.
PyAbsent == [t |-> "absent"]
PyNone == [t |-> "None"]
PyInt(n) == [t |-> "int", v |-> n]

Range(s) == {s[j] : j \in DOMAIN s}

SeqsUpTo(S, n) == UNION {[1..k -> S] : k \in 0..n}

\* A slice that stops one element early: s[a:b-1].
PySliceShort(s, a, b) ==
    LET hi == IF b - 1 < Len(s) THEN b - 1 ELSE Len(s)
    IN  IF a >= hi THEN <<>> ELSE [k \in 1..(hi - a) |-> s[a + k]]

\* Python's s[a:b] for 0 <= a and a <= b (0-based, clipped to the length).
PySlice(s, a, b) ==
    LET hi == IF b < Len(s) THEN b ELSE Len(s)
    IN  IF a >= hi THEN <<>> ELSE [k \in 1..(hi - a) |-> s[a + k]]

\* A call's outcome: the value returned, or the exception raised.
Returns(v) == [exc |-> "none", value |-> v]
Raises(e) == [exc |-> e, value |-> None]

\* --------------------------------------------------------------- tokenizer
\* Texts are sequences of characters.  tiktoken's cl100k_base is an external
\* library: it is modelled by a byte-level vocabulary (one token per
\* character, no merges), so that encode and decode are inverse bijections
\* between characters and token ids and neither is the identity.
Alphabet == <<"a", "b", " ">>

TokenOf(ch) == CHOOSE t \in DOMAIN Alphabet : Alphabet[t] = ch

enc_encode(text) == [j \in DOMAIN text |-> TokenOf(text[j])]

enc_decode(tokens) == [j \in DOMAIN tokens |-> Alphabet[tokens[j]]]

\* str.strip() is falsy exactly when the string holds only whitespace.
StripIsEmpty(text) == \A j \in DOMAIN text : text[j] = " "

\* ----------------------------------------------------------------- chunker
\* The names bound in the module's global namespace when main() runs: the
\* imports and every def of the file.
ModuleGlobals ==
    {"os", "argparse", "openai", "Pinecone", "ServerlessSpec", "tiktoken",
     "sys", "load_dotenv", "PyPDF2", "docx", "load_config", "parse_args",
     "select_or_create_index", "select_or_create_namespace", "chunk_text",
     "process_file", "process_directory", "initialize", "main"}

\* Line 327: tokens = tokenize_text(text).  Python looks the name up when the
\* line runs; no import and no def of the file binds it.
tokenize_text(text) ==
    IF "tokenize_text" \in ModuleGlobals
    THEN Returns(enc_encode(text))
    ELSE Raises("NameError")

\* The loop of lines 333-341: the [start, end) windows over the tokens.
RECURSIVE ChunkWindows(_, _, _)
ChunkWindows(ntokens, max_tokens, start) ==
    IF start < ntokens
    THEN LET end == start + max_tokens
         IN  <<[start |-> start,
                end |-> IF end < ntokens THEN end ELSE ntokens]>>
             \o ChunkWindows(ntokens, max_tokens, end)
    ELSE <<>>

\* chunk_text (321-341).  value: the chunks; windows: the token windows that
\* were decoded (none on the single-chunk path).
chunk_text(text, max_tokens) ==
    LET t == tokenize_text(text)
    IN  IF t.exc # "none"
        THEN [exc |-> t.exc, value |-> <<>>, windows |-> <<>>]
        ELSE IF Len(t.value) <= max_tokens
        THEN [exc |-> "none", value |-> <<text>>, windows |-> <<>>]
        ELSE LET w == ChunkWindows(Len(t.value), max_tokens, 0)
             IN  [exc |-> "none",
                  value |-> [k \in DOMAIN w |->
                      enc_decode(PySlice(t.value, w[k].start, w[k].end))],
                  windows |-> w]

\* -------------------------------------------------------------- file system
\* A file of the tree: its extension, whether open() succeeds, whether the
\* PDF / DOCX parser accepts it, and its text.
TextA == <<"a", "b">>
TextBlank == <<" ", " ">>
Text50 == [j \in 1..50 |-> IF j % 5 = 0 THEN " " ELSE "a"]
Text2500 == [j \in 1..2500 |-> IF j % 5 = 0 THEN " " ELSE "b"]

File(ext, openable, parses, text) ==
    [ext |-> ext, openable |-> openable, parses |-> parses, text |-> text]

FileKinds ==
    {File(".txt", FALSE, TRUE, TextA),       \* unreadable
     File(".pdf", TRUE, FALSE, TextA),       \* corrupt PDF
     File(".docx", TRUE, TRUE, TextA),
     File(".bin", TRUE, TRUE, TextA),        \* unknown type, read as text
     File(".md", TRUE, TRUE, TextBlank),
     File(".txt", TRUE, TRUE, Text50),
     File(".txt", TRUE, TRUE, Text2500)}

TextExts == {".txt", ".md", ".py", ".json", ".csv"}

\* process_file (343-384): the chunks of one file, [] when extraction fails.
process_file(f, libs) ==
    LET extracted ==
            IF f.ext \in TextExts
            THEN IF f.openable THEN Returns(f.text) ELSE Raises("IOError")
            ELSE IF f.ext = ".pdf" /\ "PyPDF2" \in libs
            THEN IF ~f.openable THEN Raises("IOError")
                 ELSE IF f.parses THEN Returns(f.text) ELSE Raises("caught")
            ELSE IF f.ext = ".docx" /\ "docx" \in libs
            THEN IF f.openable /\ f.parses
                 THEN Returns(f.text) ELSE Raises("caught")
            ELSE IF f.openable THEN Returns(f.text) ELSE Raises("IOError")
    IN  IF extracted.exc # "none"
        THEN [exc |-> "none", value |-> <<>>, extracted |-> FALSE]
        ELSE LET c == chunk_text(extracted.value, DefaultMaxTokens)
             IN  [exc |-> c.exc, value |-> c.value, extracted |-> TRUE]

\* f"doc{doc_id}"
DocId(n) == <<"doc", n>>

\* The inner loop of process_directory (393-399) over one file's chunks.
RECURSIVE AppendChunks(_, _, _)
AppendChunks(docs, id, chunks) ==
    IF chunks = <<>>
    THEN [documents |-> docs, doc_id |-> id]
    ELSE IF ~StripIsEmpty(Head(chunks))
    THEN AppendChunks(Append(docs, [id |-> DocId(id), text |-> Head(chunks)]),
                      id + 1, Tail(chunks))
    ELSE AppendChunks(docs, id, Tail(chunks))

\* ------------------------------------------------------------------- inputs
EnvSet == [PINECONE_API_KEY : {"", "pk"}, OPENAI_API_KEY : {"", "sk"}]

\* parse_args (228-234) defines no --batch-size: the args of main never has
\* the attribute.  upsert_data called directly may be handed one.
MainArgs ==
    [index : {None}, namespace : {None},
     directory : {None, "docs"}, non_interactive : BOOLEAN,
     batch_size : {PyAbsent}]

InitializeArgs ==
    [index : {None, "idx1"}, namespace : {None, "", "ns1"},
     directory : {"docs"}, non_interactive : BOOLEAN,
     batch_size : {PyAbsent}]

BatchArgs == {PyAbsent, PyNone} \cup {PyInt(n) : n \in (0 - MaxBatchArg)..MaxBatchArg}

UpsertArgs ==
    [index : {"idx1"}, namespace : {None},
     directory : {"docs"}, non_interactive : {TRUE},
     batch_size : BatchArgs]

LibSets == SUBSET {"PyPDF2", "docx"}

IndexNames == {"idx1", "default_index"}

\* select_or_create_namespace (308-318): what it returns for a provided
\* namespace, the non-interactive flag and the (stripped) line typed.
select_or_create_namespace(provided_namespace, non_interactive, typed) ==
    IF provided_namespace # None THEN provided_namespace
    ELSE IF non_interactive THEN "default_namespace"
    ELSE IF typed # "" THEN typed ELSE None

\* Every value initialize can hand on as the namespace.
NamespaceResults ==
    {select_or_create_namespace(p, n, t) :
        p \in {None, "", "ns1"}, n \in BOOLEAN, t \in {"", "ns1"}}

\* The documents handed to upsert_data: what process_directory builds, ids
\* doc1..docN over non-blank texts.
MakeDocs(texts) == [k \in DOMAIN texts |-> [id |-> DocId(k), text |-> texts[k]]]

DocTexts == {TextA, <<"b">>}

\* Two and a half default batches (250 documents).
ScenarioDocs == 2 * DefaultBatchSize + DefaultBatchSize \div 2

DocLists ==
    {MakeDocs(t) : t \in SeqsUpTo(DocTexts, MaxDocs)}
        \cup {MakeDocs([k \in 1..ScenarioDocs |-> TextA])}

NoCollect ==
    /\ optlibs = {}
    /\ dirstate = "ok"
    /\ typed_dir = "docs"
    /\ files = <<>>
    /\ file_idx = 1
    /\ doc_id = 1

NoChunk ==
    /\ c_text = <<>>
    /\ c_max = 0
    /\ c_result = None

NoStore ==
    /\ created = <<>>
    /\ clients = 0
    /\ prompts = 0

NoUpsert ==
    /\ embed_calls = <<>>
    /\ upserts = <<>>
    /\ batch_size = 0
    /\ embeddings = <<>>
    /\ vectors = <<>>
    /\ ns = None
    /\ total_batches = 0
    /\ i = 0

NoResult ==
    /\ raised = "none"
    /\ exit_code = "none"
    /\ out = <<>>

NoQuery ==
    /\ query = <<>>
    /\ queries = <<>>

\* main() (431), after parse_args.
InitMain ==
    /\ entry = "main"
    /\ pc = "get_directory"
    /\ env \in EnvSet
    /\ args \in MainArgs
    /\ optlibs \in LibSets
    /\ dirstate \in {"ok", "not_a_directory", "not_readable"}
    /\ typed_dir = "docs"
    /\ files \in SeqsUpTo(FileKinds, MaxFiles)
    /\ file_idx = 1
    /\ documents = <<>>
    /\ doc_id = 1
    /\ existing_indexes = {}
    /\ index_name = None
    /\ namespace = None
    /\ NoChunk /\ NoStore /\ NoUpsert /\ NoResult /\ NoQuery

\* chunk_text(text, max_tokens) called directly.
InitChunk ==
    /\ entry = "chunk_text"
    /\ pc = "chunk_text"
    /\ env = [PINECONE_API_KEY |-> "pk", OPENAI_API_KEY |-> "sk"]
    /\ args \in {a \in MainArgs : a.directory = "docs" /\ a.non_interactive}
    /\ documents = <<>>
    /\ c_text \in SeqsUpTo(Range(Alphabet), MaxTextLen)
    /\ c_max \in 1..MaxTokArg
    /\ c_result = None
    /\ existing_indexes = {}
    /\ index_name = None
    /\ namespace = None
    /\ NoCollect /\ NoStore /\ NoUpsert /\ NoResult /\ NoQuery

\* initialize(args) called directly.
InitInitialize ==
    /\ entry = "initialize"
    /\ pc = "initialize"
    /\ env \in EnvSet
    /\ args \in InitializeArgs
    /\ documents = <<>>
    /\ existing_indexes \in SUBSET IndexNames
    /\ index_name = None
    /\ namespace = None
    /\ NoCollect /\ NoChunk /\ NoStore /\ NoUpsert /\ NoResult /\ NoQuery

\* upsert_data(documents, index, namespace, client, args) called directly.
InitUpsert ==
    /\ entry = "upsert_data"
    /\ pc = "upsert_data"
    /\ env = [PINECONE_API_KEY |-> "pk", OPENAI_API_KEY |-> "sk"]
    /\ args \in UpsertArgs
    /\ documents \in DocLists
    /\ existing_indexes = {"idx1"}
    /\ index_name = "idx1"
    /\ namespace \in NamespaceResults
    /\ NoCollect /\ NoChunk /\ NoStore /\ NoUpsert /\ NoResult /\ NoQuery

\* query_pinecone(query, index, namespace, client, args) called directly,
\* with the stripped line a user may type as the query.
InitQuery ==
    /\ entry = "query_pinecone"
    /\ pc = "query_pinecone"
    /\ env = [PINECONE_API_KEY |-> "pk", OPENAI_API_KEY |-> "sk"]
    /\ args \in {a \in InitializeArgs : a.index = "idx1" /\ a.namespace = None}
    /\ documents = <<>>
    /\ existing_indexes = {"idx1"}
    /\ index_name = "idx1"
    /\ namespace \in NamespaceResults
    /\ query \in {<<>>, TextA, <<"b">>}
    /\ queries = <<>>
    /\ NoCollect /\ NoChunk /\ NoStore /\ NoUpsert /\ NoResult

\* main from line 552 on, holding a document list: initialize, upsert_data
\* and the query loop, which hand one and the same namespace on (553, 561).
\* parse_args defines no batch size, so args carries none.
InitMainTail ==
    /\ entry = "main_tail"
    /\ pc = "initialize"
    /\ env = [PINECONE_API_KEY |-> "pk", OPENAI_API_KEY |-> "sk"]
    /\ args \in InitializeArgs
    /\ documents = MakeDocs(<<TextA, <<"b">>>>)
    /\ existing_indexes = {"idx1"}
    /\ index_name = None
    /\ namespace = None
    /\ NoCollect /\ NoChunk /\ NoStore /\ NoUpsert /\ NoResult /\ NoQuery

Init ==
    \/ InitMain
    \/ InitChunk
    \/ InitInitialize
    \/ InitUpsert
    \/ InitQuery
    \/ InitMainTail

\* The run is main's, from its start or from line 552.
InMain == entry \in {"main", "main_tail"}

Say(msg) == [msg |-> msg]

\* --------------------------------------------------------- actions of main
\* get_directory (515-542), called at 544, and the print of 546.
GetDirectory ==
    /\ pc = "get_directory"
    /\ LET said == IF args.directory = None /\ args.non_interactive
                   THEN <<Say("Non-interactive mode: using default directory")>>
                   ELSE <<>>
       IN  IF dirstate = "not_a_directory"
           THEN /\ out' = out \o said \o <<Say("Directory is invalid. Exiting.")>>
                /\ exit_code' = 1
                /\ pc' = "exited"
           ELSE IF dirstate = "not_readable"
           THEN /\ out' = out \o said
                      \o <<Say("Directory is not readable. Exiting.")>>
                /\ exit_code' = 1
                /\ pc' = "exited"
           ELSE /\ out' = out \o said
                      \o <<Say("Processing files in directory.")>>
                /\ exit_code' = exit_code
                /\ pc' = "process_directory"
    /\ UNCHANGED <<queryVars, inputVars, collectVars, chunkVars, storeVars, upsertVars,
                   raised>>

\* One iteration of process_directory's loop over the files (390-399):
\* process_file, then one document per non-blank chunk.  An exception that
\* process_file does not catch leaves process_directory and main.
ProcessNextFile ==
    /\ pc = "process_directory"
    /\ file_idx <= Len(files)
    /\ LET r == process_file(files[file_idx], optlibs)
       IN  IF r.exc # "none"
           THEN /\ raised' = r.exc
                /\ pc' = "raised"
                /\ UNCHANGED <<collectVars, out>>
           ELSE LET a == AppendChunks(documents, doc_id, r.value)
                IN  /\ documents' = a.documents
                    /\ doc_id' = a.doc_id
                    /\ file_idx' = file_idx + 1
                    /\ out' = IF r.extracted
                              THEN Append(out, [msg |-> "Processed into chunk(s)",
                                                chunks |-> Len(r.value)])
                              ELSE Append(out, Say("Error processing file"))
                    /\ UNCHANGED <<raised, pc>>
    /\ UNCHANGED <<queryVars, inputVars, chunkVars, storeVars, upsertVars, exit_code>>

\* main without its check of the collected list: it always goes on.
MainAfterCollectUnchecked ==
    /\ pc = "process_directory"
    /\ file_idx > Len(files)
    /\ pc' = "initialize"
    /\ UNCHANGED <<queryVars, inputVars, collectVars, chunkVars, storeVars, upsertVars,
                   raised, out, exit_code>>

\* process_directory returns (400); main's check of the result (548-550).
MainAfterCollect ==
    /\ pc = "process_directory"
    /\ file_idx > Len(files)
    /\ IF documents = <<>>
       THEN /\ out' = Append(out, Say("No valid documents found. Exiting."))
            /\ exit_code' = 1
            /\ pc' = "exited"
       ELSE /\ pc' = "initialize"
            /\ UNCHANGED <<out, exit_code>>
    /\ UNCHANGED <<queryVars, inputVars, collectVars, chunkVars, storeVars, upsertVars,
                   raised>>

\* chunk_text called directly.
ChunkTextCall ==
    /\ pc = "chunk_text"
    /\ c_result' = chunk_text(c_text, c_max)
    /\ raised' = c_result'.exc
    /\ pc' = IF c_result'.exc = "none" THEN "returned" ELSE "raised"
    /\ UNCHANGED <<queryVars, inputVars, collectVars, storeVars, upsertVars, exit_code,
                   out, c_text, c_max>>

\* --------------------------------------------------- actions of initialize
\* load_config (214-225).
load_config(e) ==
    IF e.PINECONE_API_KEY = "" \/ e.OPENAI_API_KEY = ""
    THEN Raises("EnvironmentError")
    ELSE Returns(<<e.PINECONE_API_KEY, e.OPENAI_API_KEY>>)

\* Where a run goes when initialize returns: main goes on to upsert_data
\* (553); a direct call ends.
AfterInitialize == IF InMain THEN "upsert_data" ELSE "returned"

\* initialize up to the index selection (412-421) and the straight-line part
\* of select_or_create_index (237-269): a provided index, or the default one
\* in non-interactive mode; otherwise the prompt loop starts.
Initialize ==
    /\ pc = "initialize"
    /\ IF load_config(env).exc # "none"
       THEN /\ raised' = load_config(env).exc
            /\ pc' = "raised"
            /\ UNCHANGED <<storeVars, out>>
       ELSE /\ clients' = clients + 2
            /\ UNCHANGED <<raised, existing_indexes, namespace, prompts>>
            /\ IF args.index # None /\ args.index # ""
               THEN /\ index_name' = args.index
                    /\ pc' = "select_namespace"
                    /\ IF args.index \in existing_indexes
                       THEN /\ out' = Append(out, Say("Using provided existing index"))
                            /\ created' = created
                       ELSE /\ out' = Append(out, Say("Provided index does not exist. Creating it..."))
                            /\ created' = Append(created, args.index)
               ELSE IF args.non_interactive
               THEN /\ index_name' = "default_index"
                    /\ pc' = "select_namespace"
                    /\ IF "default_index" \notin existing_indexes
                       THEN /\ out' = Append(out, Say("Creating default index"))
                            /\ created' = Append(created, "default_index")
                       ELSE /\ out' = Append(out, Say("Using existing default index"))
                            /\ created' = created
               ELSE /\ out' = Append(out, Say("Existing indexes:"))
                    /\ pc' = "index_prompt"
                    /\ UNCHANGED <<index_name, created>>
    /\ UNCHANGED <<queryVars, inputVars, collectVars, chunkVars, upsertVars, exit_code>>

\* One turn of select_or_create_index's prompt loop (270-305).  The user's
\* answers are the inputs; a turn that selects nothing asks again.
IndexPrompt ==
    /\ pc = "index_prompt"
    /\ \E choice \in {"s", "c", "x"}, name \in IndexNames, yn \in {"y", "n"} :
          LET retry(msg) ==
                  /\ prompts < MaxPrompts
                  /\ prompts' = prompts + 1
                  /\ out' = Append(out, Say(msg))
                  /\ UNCHANGED <<index_name, created, pc>>
              select(msgs, creates) ==
                  /\ index_name' = name
                  /\ created' = IF creates THEN Append(created, name) ELSE created
                  /\ out' = out \o msgs
                  /\ pc' = "select_namespace"
                  /\ UNCHANGED prompts
          IN  IF choice = "x"
              THEN retry("Invalid choice.")
              ELSE IF choice = "s"
              THEN IF name \in existing_indexes
                   THEN select(<<>>, FALSE)
                   ELSE IF yn = "y"
                   THEN select(<<Say("Creating new index")>>, TRUE)
                   ELSE retry("Let's try again.")
              ELSE IF name \in existing_indexes
                   THEN select(<<Say("Index already exists. Using the existing index.")>>, FALSE)
                   ELSE select(<<Say("Creating new index")>>, TRUE)
    /\ UNCHANGED <<queryVars, inputVars, collectVars, chunkVars, upsertVars, exit_code,
                   raised, existing_indexes, clients, namespace>>

\* initialize's namespace selection and return (425-427).
SelectNamespace ==
    /\ pc = "select_namespace"
    /\ \E typed \in {"", "ns1"} :
          /\ namespace' = select_or_create_namespace(
                              args.namespace, args.non_interactive, typed)
          /\ out' = IF args.namespace # None
                    THEN Append(out, Say("Using provided namespace"))
                    ELSE IF args.non_interactive
                    THEN Append(out, Say("Non-interactive mode: using default namespace"))
                    ELSE out
    /\ pc' = AfterInitialize
    /\ UNCHANGED <<queryVars, inputVars, collectVars, chunkVars, upsertVars, exit_code,
                   raised, existing_indexes, created, clients, index_name,
                   prompts>>

\* -------------------------------------------------- actions of upsert_data
\* Python's a // b (floor division) for b # 0.
PyFloorDiv(a, b) == IF b > 0 THEN a \div b ELSE (0 - a) \div (0 - b)

\* Whether range(0, stop, step) still yields the value k.
InRange(k, stop, step) == IF step > 0 THEN k < stop ELSE k > stop

\* Line 467: args.batch_size if hasattr(args, 'batch_size') and
\* args.batch_size else 100.  None and 0 are falsy; every other int is truthy.
EffectiveBatchSize(a) ==
    IF a.batch_size # PyAbsent /\ a.batch_size # PyNone /\ a.batch_size # PyInt(0)
    THEN a.batch_size.v
    ELSE DefaultBatchSize

\* The namespace handed on as it came, None included.
NamespaceUnresolved(n) == n

\* ns = namespace if namespace else "" (478, and again 505): None and the
\* empty string are falsy.
NamespaceOrDefault(n) == IF n # None /\ n # "" THEN n ELSE ""

\* The embedding of a text, as a provider that honours its contract returns it.
EmbeddingOf(text) == <<"embedding", text>>

\* What client.embeddings.create may answer for a list of texts: one vector
\* per text in order; one vector short; one vector too many; or an error.
ProviderAnswers(texts) ==
    LET good == [k \in DOMAIN texts |-> EmbeddingOf(texts[k])]
    IN  {Returns(good), Returns(Append(good, EmbeddingOf(<<>>))),
         Raises("EmbeddingError")}
            \cup (IF texts = <<>> THEN {}
                  ELSE {Returns(SubSeq(good, 1, Len(good) - 1))})

\* The pairing with the vectors taken from the other end of the answer.
ZipVectorsReversed(docs, embs) ==
    LET n == IF Len(docs) < Len(embs) THEN Len(docs) ELSE Len(embs)
    IN  [k \in 1..n |-> [id |-> docs[k].id, values |-> embs[Len(embs) + 1 - k],
                         metadata |-> [text |-> docs[k].text]]]

\* zip(documents, embeddings) of 476, and the record built from each pair
\* (470-475): zip stops at the shorter of the two.
ZipVectors(docs, embs) ==
    LET n == IF Len(docs) < Len(embs) THEN Len(docs) ELSE Len(embs)
    IN  [k \in 1..n |-> [id |-> docs[k].id, values |-> embs[k],
                         metadata |-> [text |-> docs[k].text]]]

\* upsert_data up to its loop (467-480): the batch size, the one embed_text
\* call (438-453), the vectors, ns and total_batches.
UpsertEmbed ==
    /\ pc = "upsert_data"
    /\ LET texts == [k \in DOMAIN documents |-> documents[k].text]
           bs == EffectiveBatchSize(args)
       IN  /\ batch_size' = bs
           /\ embed_calls' = Append(embed_calls, texts)
           /\ \E answer \in ProviderAnswers(texts) :
                 IF answer.exc # "none"
                 THEN /\ raised' = answer.exc
                      /\ pc' = "raised"
                      /\ UNCHANGED <<embeddings, vectors, ns, total_batches>>
                 ELSE /\ embeddings' = answer.value
                      /\ vectors' = ZipVectors(documents, answer.value)
                      /\ ns' = NamespaceOrDefault(namespace)
                      /\ total_batches' = PyFloorDiv(Len(vectors') + bs - 1, bs)
                      /\ pc' = "upsert_loop"
                      /\ UNCHANGED raised
    /\ UNCHANGED <<queryVars, inputVars, collectVars, chunkVars, storeVars, upserts, i,
                   exit_code, out>>

\* One iteration of the loop (481-484): the slice, the write, the progress
\* line.  A write that fails raises out of upsert_data: nothing catches it.
UpsertBatch ==
    /\ pc = "upsert_loop"
    /\ InRange(i, Len(vectors), batch_size)
    /\ LET batch == PySlice(vectors, i, i + batch_size)
       IN  \E ok \in BOOLEAN :
              /\ upserts' = Append(upserts,
                     [batch |-> batch, namespace |-> ns, ok |-> ok])
              /\ IF ok
                 THEN /\ out' = Append(out,
                            [msg |-> "Upserted batch",
                             batch |-> PyFloorDiv(i, batch_size) + 1,
                             total |-> total_batches])
                      /\ i' = i + batch_size
                      /\ UNCHANGED <<pc, raised>>
                 ELSE /\ raised' = "UpsertError"
                      /\ pc' = "raised"
                      /\ UNCHANGED <<out, i>>
    /\ UNCHANGED <<queryVars, inputVars, collectVars, chunkVars, storeVars, embed_calls,
                   batch_size, embeddings, vectors, ns, total_batches,
                   exit_code>>

\* The loop is exhausted: the summary line (485-486) and the return.  In
\* main the query loop follows (556), or the closing line of 571.
UpsertFinish ==
    /\ pc = "upsert_loop"
    /\ ~InRange(i, Len(vectors), batch_size)
    /\ LET summary == [msg |-> "Successfully upserted documents",
                       count |-> Len(vectors), index |-> args.index,
                       namespace |-> ns]
       IN  IF ~InMain
           THEN /\ out' = Append(out, summary)
                /\ pc' = "returned"
           ELSE IF args.non_interactive
           THEN /\ out' = out \o <<summary,
                              Say("Non-interactive mode complete. Exiting.")>>
                /\ pc' = "done"
           ELSE /\ out' = Append(out, summary)
                /\ pc' = "query_loop"
    /\ UNCHANGED <<queryVars, inputVars, collectVars, chunkVars, storeVars, upsertVars,
                   exit_code, raised>>

\* ------------------------------------------------ actions of the queries
\* One turn of main's query loop (557-569): q asks for the query and calls
\* query_pinecone with main's index and namespace, e leaves, anything else
\* asks again.
QueryLoop ==
    /\ pc = "query_loop"
    /\ \E choice \in {"q", "e", "x"}, user_query \in {<<>>, TextA, <<"b">>} :
          IF choice = "q"
          THEN /\ Len(queries) < MaxQueries
               /\ query' = user_query
               /\ pc' = "query_pinecone"
               /\ UNCHANGED <<out, prompts>>
          ELSE IF choice = "e"
          THEN /\ out' = Append(out, Say("Exiting. Goodbye!"))
               /\ pc' = "done"
               /\ UNCHANGED <<query, prompts>>
          ELSE /\ prompts < MaxPrompts
               /\ prompts' = prompts + 1
               /\ out' = Append(out, Say("Invalid option."))
               /\ UNCHANGED <<query, pc>>
    /\ UNCHANGED <<queries, inputVars, collectVars, chunkVars, upsertVars,
                   exit_code, raised, existing_indexes, created, clients,
                   index_name, namespace>>

\* query_pinecone (504-512): embed_text([query])[0], ns, index.query with
\* top_k = 3.  An empty answer of the provider makes [0] an IndexError.  In
\* main the results are printed (562) and the loop goes on.
QueryPinecone ==
    /\ pc = "query_pinecone"
    /\ embed_calls' = Append(embed_calls, <<query>>)
    /\ \E answer \in ProviderAnswers(<<query>>) :
          IF answer.exc # "none"
          THEN /\ raised' = answer.exc
               /\ pc' = "raised"
               /\ UNCHANGED <<ns, queries, out>>
          ELSE IF answer.value = <<>>
          THEN /\ raised' = "IndexError"
               /\ pc' = "raised"
               /\ UNCHANGED <<ns, queries, out>>
          ELSE /\ ns' = NamespaceOrDefault(namespace)
               /\ \E ok \in BOOLEAN :
                     /\ queries' = Append(queries,
                            [namespace |-> ns', vector |-> answer.value[1],
                             top_k |-> 3, include_metadata |-> TRUE,
                             ok |-> ok])
                     /\ raised' = IF ok THEN raised ELSE "QueryError"
                     /\ pc' = IF ~ok THEN "raised"
                              ELSE IF InMain THEN "query_loop" ELSE "returned"
                     /\ out' = IF ok /\ InMain
                               THEN Append(out, Say("Top Results:")) ELSE out
    /\ UNCHANGED <<inputVars, collectVars, chunkVars, storeVars, upserts,
                   batch_size, embeddings, vectors, total_batches, i, query,
                   exit_code>>

Next ==
    \/ QueryLoop
    \/ QueryPinecone
    \/ GetDirectory
    \/ ProcessNextFile
    \/ MainAfterCollect
    \/ ChunkTextCall
    \/ Initialize
    \/ IndexPrompt
    \/ SelectNamespace
    \/ UpsertEmbed
    \/ UpsertBatch
    \/ UpsertFinish

Spec == Init /\ [][Next]_vars

\* ------------------------------------------------------------------ claims
CeilDiv(n, b) == (n + b - 1) \div b

BatchSizes == [k \in DOMAIN upserts |-> Len(upserts[k].batch)]

\* C1: once the embedding call has returned, with V the number of vectors
\* built (V = N, the number of documents, whenever the provider returned one
\* vector per text) and B > 0 the effective batch size: upsert_data never
\* issues more than ceil(V/B) writes, every write carries B vectors except
\* the ceil(V/B)-th, which carries V mod B when that is nonzero and B
\* otherwise, total_batches is ceil(V/B), and when upsert_data returns it has
\* issued exactly ceil(V/B) writes.
C1_BatchCountAndSizes ==
    (batch_size > 0 /\ pc # "upsert_data" /\ raised # "EmbeddingError")
    => LET N == Len(documents)
           V == Len(vectors)
           B == batch_size
           total == CeilDiv(V, B)
       IN  /\ Len(embeddings) = N => V = N
           /\ Len(upserts) <= total
           /\ \A k \in DOMAIN upserts :
                 Len(upserts[k].batch) =
                     IF k < total THEN B
                     ELSE IF V % B # 0 THEN V % B ELSE B
           /\ (pc \in {"returned", "done", "query_loop"} => Len(upserts) = total)
           /\ total_batches = total

C1_Witness ==
    /\ pc = "returned"
    /\ Len(documents) = 250
    /\ batch_size = 100
    /\ Len(embeddings) = Len(documents)
    /\ BatchSizes = <<100, 100, 50>>

MismatchedEmbeddings ==
    /\ pc \notin {"upsert_data"}
    /\ embed_calls # <<>>
    /\ raised # "EmbeddingError"
    /\ Len(embeddings) # Len(documents)

\* C2: when the provider returned a number of vectors different from the
\* number of texts, upsert_data writes nothing and does not return normally.
C2_MismatchIsFatal ==
    MismatchedEmbeddings => (upserts = <<>> /\ pc # "returned")

CollectionEnded ==
    /\ entry = "main"
    /\ dirstate = "ok"
    /\ pc \notin {"get_directory", "process_directory"}

\* C3: for every tree and every pattern of extraction failures,
\* process_directory walks every file and returns (no name error leaves it),
\* and the units it returns carry the ids doc1,
\* doc2, ..., docN in order, the counter having advanced once per unit.
C3_ContiguousIds ==
    CollectionEnded
    => /\ file_idx = Len(files) + 1
       /\ raised # "NameError"
       /\ \A k \in DOMAIN documents : documents[k].id = DocId(k)
       /\ doc_id = Len(documents) + 1

MissingKey == env.PINECONE_API_KEY = "" \/ env.OPENAI_API_KEY = ""

\* C4: in a run of main with a missing key the traversal is never entered, no
\* file is ever processed, and nothing but the configuration error is raised.
C4_ConfigErrorBeforeProcessing ==
    (entry = "main" /\ MissingKey)
    => /\ pc # "process_directory"
       /\ file_idx = 1
       /\ documents = <<>>
       /\ raised \in {"none", "EnvironmentError"}

\* C5: when process_directory returned an empty list, main has printed "No
\* valid documents found", exited with status 1, and no embedding call, no
\* client construction, no index creation and no write was made.
C5_EmptyCollectionExits ==
    (CollectionEnded /\ raised = "none" /\ documents = <<>>)
    => /\ pc = "exited"
       /\ exit_code = 1
       /\ out[Len(out)] = Say("No valid documents found. Exiting.")
       /\ embed_calls = <<>>
       /\ upserts = <<>>
       /\ clients = 0
       /\ created = <<>>

C5_Witness ==
    /\ entry = "main"
    /\ pc = "exited"
    /\ Len(files) = 2
    /\ file_idx > Len(files)
    /\ \A k \in DOMAIN files : ~files[k].openable
    /\ documents = <<>>
    /\ exit_code = 1

ChunkTextEnded == entry = "chunk_text" /\ pc # "chunk_text"

\* C6: for a text of more than max_tokens tokens chunk_text returns, and the
\* windows it decoded start at 0, are max_tokens long except a shorter
\* non-empty last one, follow each other without gap or overlap, end at the
\* token count, number ceil(len/max_tokens), and concatenate to encode(T).
C6_WindowsPartitionTokens ==
    (ChunkTextEnded /\ Len(enc_encode(c_text)) > c_max)
    => /\ c_result.exc = "none"
       /\ LET tokens == enc_encode(c_text)
              w == c_result.windows
          IN  /\ Len(w) = CeilDiv(Len(tokens), c_max)
              /\ w[1].start = 0
              /\ w[Len(w)].end = Len(tokens)
              /\ \A k \in DOMAIN w :
                    /\ w[k].start < w[k].end
                    /\ k < Len(w) => w[k].end - w[k].start = c_max
                    /\ k < Len(w) => w[k + 1].start = w[k].end
                    /\ w[k].end - w[k].start <= c_max
              /\ \A k \in DOMAIN w : \A j \in 1..(w[k].end - w[k].start) :
                    enc_encode(c_result.value[k])[j] = tokens[w[k].start + j]

\* C7: for a text of at most max_tokens tokens, the empty text included,
\* chunk_text returns the one-element list holding the text itself, and
\* decodes nothing.
C7_ShortTextIsIdentity ==
    (ChunkTextEnded /\ Len(enc_encode(c_text)) <= c_max)
    => /\ c_result.exc = "none"
       /\ c_result.value = <<c_text>>
       /\ c_result.windows = <<>>

File50 == File(".txt", TRUE, TRUE, Text50)
File2500 == File(".txt", TRUE, TRUE, Text2500)

\* C8: a directory holding a 50-token file and a 2500-token file is collected
\* without error into the four units doc1..doc4, the first holding the first
\* file's text and the other three the 1000, 1000 and 500 token windows of
\* the second.
C8_ScenarioFourUnits ==
    (CollectionEnded /\ files = <<File50, File2500>>)
    => /\ file_idx = 3
       /\ pc # "exited"
       /\ Len(documents) = 4
       /\ \A k \in 1..4 : documents[k].id = DocId(k)
       /\ documents[1].text = Text50
       /\ Len(enc_encode(documents[2].text)) = 1000
       /\ Len(enc_encode(documents[3].text)) = 1000
       /\ Len(enc_encode(documents[4].text)) = 500

\* The units the successful writes committed before a failure.
Committed ==
    LET okSizes == [k \in DOMAIN upserts |->
                       IF upserts[k].ok THEN Len(upserts[k].batch) ELSE 0]
        sum[k \in 0..Len(upserts)] ==
            IF k = 0 THEN 0 ELSE sum[k - 1] + okSizes[k]
    IN  sum[Len(upserts)]

\* C9: when a write fails, the run ends with the failure, and something the
\* run printed names the batch that failed and the units already committed.
C9_FailureReportsBatchAndCommitted ==
    (raised = "UpsertError")
    => /\ pc = "raised"
       /\ \E k \in DOMAIN out :
             /\ {"failed_batch", "committed"} \subseteq DOMAIN out[k]
             /\ out[k].failed_batch = Len(upserts)
             /\ out[k].committed = Committed

NonPositiveOrMissing(b) ==
    b \in {PyAbsent, PyNone} \/ b.v <= 0

\* C10: when args has no batch_size, or one that is None, zero or negative,
\* upsert_data batches by 100: its batch size is 100, and a run that returns
\* has issued ceil(len(vectors)/100) writes.
C10_NonPositiveFallsBackToDefault ==
    (entry = "upsert_data" /\ pc # "upsert_data"
        /\ NonPositiveOrMissing(args.batch_size))
    => /\ batch_size = 100
       /\ (pc = "returned" => Len(upserts) = CeilDiv(Len(vectors), 100))

\* The vectors of the writes issued so far, in the order they were written.
Written ==
    LET cat[k \in 0..Len(upserts)] ==
            IF k = 0 THEN <<>> ELSE cat[k - 1] \o upserts[k].batch
    IN  cat[Len(upserts)]

\* C11: in every run of upsert_data, every write but the last issued has
\* returned successfully, and the last one failed exactly when the run ended
\* with the write's error (so no write follows a failed one); no write is
\* empty; the batches written so far, concatenated in the order written, are
\* a prefix of the vector list, which follows the documents' order; and when
\* upsert_data returns they are the whole list, each unit once.
C11_SequentialContiguousCover ==
    (pc # "upsert_data" /\ raised # "EmbeddingError")
    => LET w == Written
       IN  /\ \A k \in DOMAIN upserts : k < Len(upserts) => upserts[k].ok
           /\ (raised = "UpsertError")
                  <=> (upserts # <<>> /\ ~upserts[Len(upserts)].ok)
           /\ \A k \in DOMAIN upserts : upserts[k].batch # <<>>
           /\ Len(w) <= Len(vectors)
           /\ w = SubSeq(vectors, 1, Len(w))
           /\ \A k \in DOMAIN vectors : vectors[k].id = documents[k].id
           /\ (pc \in {"returned", "done", "query_loop"} => w = vectors)
           /\ (pc \in {"returned", "done", "query_loop"}
                   /\ Len(embeddings) = Len(documents)
                 => [k \in DOMAIN w |-> w[k].id]
                        = [k \in DOMAIN documents |-> documents[k].id])

\* C12: once upsert_data is past its embedding step it has made exactly one
\* embedding call, with the texts of all documents in document order; no
\* write is issued before that call has returned; and the j-th record
\* written carries the id and the text of the j-th document and the j-th
\* vector the provider returned.
C12_OneEmbedCallPositionalPairing ==
    (entry \in {"main", "upsert_data"})
    => LET w == Written
       IN  /\ (pc \notin {"get_directory", "process_directory", "initialize",
                          "index_prompt", "select_namespace", "upsert_data",
                          "exited"}
                  /\ raised \notin {"NameError", "EnvironmentError"}
               => /\ Len(embed_calls) = 1
                  /\ embed_calls[1]
                         = [k \in DOMAIN documents |-> documents[k].text])
           /\ (upserts # <<>>
               => /\ Len(embed_calls) = 1
                  /\ raised # "EmbeddingError"
                  /\ Len(embeddings) >= Len(w))
           /\ \A j \in DOMAIN w :
                 /\ w[j].id = documents[j].id
                 /\ w[j].metadata.text = documents[j].text
                 /\ w[j].values = embeddings[j]

\* Two documents with different texts, written in two batches.
C12_Witness ==
    /\ entry = "upsert_data"
    /\ pc = "returned"
    /\ Len(documents) = 2
    /\ documents[1].text # documents[2].text
    /\ Len(upserts) = 2
    /\ Len(Written) = 2
    /\ Written[2].values = EmbeddingOf(documents[2].text)

\* The string a namespace value stands for: the empty string for None and
\* for the empty string, the value itself otherwise.
ConcreteNamespace == IF namespace \in {None, ""} THEN "" ELSE namespace

\* C13: every write and every query issued carries a namespace that is not
\* None and is the run's namespace with None and "" both read as ""; the
\* namespace is one of the values select_or_create_namespace returns; every
\* query of a run carries the namespace of the run's writes; and the
\* namespace is never reassigned once a write or a query has been issued.
C13_NamespaceResolvedBeforeCalls ==
    /\ [](/\ \A k \in DOMAIN upserts :
               /\ upserts[k].namespace # None
               /\ upserts[k].namespace = ConcreteNamespace
          /\ \A k \in DOMAIN queries :
               /\ queries[k].namespace # None
               /\ queries[k].namespace = ConcreteNamespace
          /\ \A j \in DOMAIN upserts : \A k \in DOMAIN queries :
               queries[k].namespace = upserts[j].namespace
          /\ namespace \in {None, "", "ns1", "default_namespace"})
    /\ [][(upserts # <<>> \/ queries # <<>>) => namespace' = namespace]_vars

\* A run whose namespace was left undecided (None, empty interactive input),
\* with a write and two queries issued: all of them went to "".
C13_Witness ==
    /\ entry = "main_tail"
    /\ namespace = None
    /\ upserts # <<>>
    /\ upserts[1].namespace = ""
    /\ Len(queries) = 2
    /\ queries[2].namespace = ""

====
